---- MODULE Spec2Model ----
(***************************************************************************)
(* pswalker/plans.py: the bluesky plans measure_centroid and walk_to_pixel *)
(* as state machines.  A plan is a generator: every action below runs the  *)
(* plan from one `yield Msg(...)` to the next, appends the message to      *)
(* `trace` and takes the run engine's answer (the value of a read, the     *)
(* time a wait took) from a small set.                                     *)
(*                                                                         *)
(* Numbers.  The values a detector returns and the value np.mean makes of  *)
(* them are IEEE-754 binary64 numbers, modelled bit for bit (F64, below).  *)
(* The arithmetic of the walk itself (start + first_step, np.isclose,      *)
(* scipy's linregress, (target - intercept)/slope) is modelled on exact    *)
(* rationals extended with NaN and the two infinities, which is what       *)
(* binary64 computes up to rounding in the last place.                     *)
(***************************************************************************)
EXTENDS Integers, Sequences, FiniteSets, TLC

(***************************************************************************)
(* Extended rationals: <<n, d>> with d > 0 in lowest terms, and            *)
(* <<0, 0>> = NaN, <<1, 0>> = +inf, <<-1, 0>> = -inf.                      *)
(***************************************************************************)
Abs(n) == IF n < 0 THEN -n ELSE n

Sgn(n) == IF n < 0 THEN -1 ELSE IF n > 0 THEN 1 ELSE 0

RECURSIVE GCD(_, _)
GCD(a, b) == IF b = 0 THEN a ELSE GCD(b, a % b)

NaN == <<0, 0>>

PInf == <<1, 0>>

NInf == <<-1, 0>>

R(n) == <<n, 1>>

IsNaN(a) == a = NaN

IsInf(a) == a[2] = 0 /\ a[1] # 0

RNorm(n, d) ==
    IF d = 0 THEN <<Sgn(n), 0>>
    ELSE LET g == GCD(Abs(n), Abs(d))
         IN  <<Sgn(d) * (n \div g), Abs(d) \div g>>

RNeg(a) == <<-a[1], a[2]>>

RAbs(a) == <<Abs(a[1]), a[2]>>

RAdd(a, b) ==
    IF IsNaN(a) \/ IsNaN(b) THEN NaN
    ELSE IF IsInf(a) /\ IsInf(b) THEN (IF a = b THEN a ELSE NaN)
    ELSE IF IsInf(a) THEN a
    ELSE IF IsInf(b) THEN b
    ELSE RNorm(a[1] * b[2] + b[1] * a[2], a[2] * b[2])

RSub(a, b) == RAdd(a, RNeg(b))

RMul(a, b) ==
    IF IsNaN(a) \/ IsNaN(b) THEN NaN
    ELSE IF IsInf(a) \/ IsInf(b) THEN <<Sgn(a[1]) * Sgn(b[1]), 0>>
    ELSE LET g1 == GCD(Abs(a[1]), b[2])
             g2 == GCD(Abs(b[1]), a[2])
         IN  RNorm((a[1] \div g1) * (b[1] \div g2), (a[2] \div g2) * (b[2] \div g1))

\* a / b as numpy's float64 divides: x/0 is +-inf, 0/0 and inf/inf are nan,
\* with a RuntimeWarning and no exception.
RDiv(a, b) ==
    IF IsNaN(a) \/ IsNaN(b) THEN NaN
    ELSE IF IsInf(b) THEN (IF IsInf(a) THEN NaN ELSE R(0))
    ELSE IF b[1] = 0 THEN <<Sgn(a[1]), 0>>
    ELSE IF IsInf(a) THEN <<Sgn(a[1]) * Sgn(b[1]), 0>>
    ELSE RMul(a, <<Sgn(b[1]) * b[2], Abs(b[1])>>)

Floor(a) == IF a[1] >= 0 THEN a[1] \div a[2] ELSE -((-a[1] + a[2] - 1) \div a[2])

\* a <= b; false when either is NaN.  Finite values are compared by integer
\* part first, so that the cross products stay small.
RLeq(a, b) ==
    IF IsNaN(a) \/ IsNaN(b) THEN FALSE
    ELSE IF a = b THEN TRUE
    ELSE IF IsInf(a) THEN a = NInf
    ELSE IF IsInf(b) THEN b = PInf
    ELSE LET fa == Floor(a)
             fb == Floor(b)
         IN  IF fa # fb THEN fa < fb
             ELSE (a[1] - fa * a[2]) * b[2] <= (b[1] - fb * b[2]) * a[2]

RECURSIVE RSum(_)
RSum(s) == IF s = <<>> THEN R(0) ELSE RAdd(s[1], RSum(Tail(s)))

RMean(s) == RDiv(RSum(s), R(Len(s)))

(***************************************************************************)
(* IEEE-754 binary64, for the values read from the detector and their      *)
(* mean.  A finite positive value is [k |-> "fin", m, e]: m = <<hi, lo>>   *)
(* holds the 53 significand bits (the leading one included) as the integer *)
(* hi * 2^27 + lo, and e is the exponent of the last bit, so the value is  *)
(* (hi * 2^27 + lo) * 2^e.  Beam centroids are pixel coordinates, so       *)
(* negative finite values and subnormals are left out; NaN and the         *)
(* infinities are kept.                                                    *)
(***************************************************************************)
Precision == 53

\* Bits of the low word of a significand.
LowBits == 27

Zeros(n) == [i \in 1..n |-> 0]

RECURSIVE Pow2(_)
Pow2(n) == IF n = 0 THEN 1 ELSE 2 * Pow2(n - 1)

\* Bit strings are sequences of 0 and 1, most significant bit first.  The
\* operators on long ones split the string in halves, which keeps the
\* recursion as deep as the logarithm of the length.
RECURSIVE BitsOf(_)
BitsOf(n) == IF n = 0 THEN <<>> ELSE Append(BitsOf(n \div 2), n % 2)

RECURSIVE IntOf(_)
IntOf(b) ==
    IF Len(b) = 0 THEN 0
    ELSE IF Len(b) = 1 THEN b[1]
    ELSE LET h == Len(b) \div 2
         IN  IntOf(SubSeq(b, 1, h)) * Pow2(Len(b) - h) + IntOf(SubSeq(b, h + 1, Len(b)))

StripLeading(b) ==
    LET ones == {j \in 1..Len(b) : b[j] = 1}
    IN  IF ones = {} THEN <<>>
        ELSE SubSeq(b, CHOOSE j \in ones : \A k \in ones : j <= k, Len(b))

StripTrailing(b) ==
    LET ones == {j \in 1..Len(b) : b[j] = 1}
    IN  IF ones = {} THEN <<>>
        ELSE SubSeq(b, 1, CHOOSE j \in ones : \A k \in ones : j >= k)

\* <<carry out, sum bits>> of two bit strings of one length plus a carry in.
RECURSIVE BAddC(_, _, _)
BAddC(x, y, c) ==
    IF Len(x) = 0 THEN <<c, <<>>>>
    ELSE IF Len(x) = 1 THEN <<(x[1] + y[1] + c) \div 2, <<(x[1] + y[1] + c) % 2>>>>
    ELSE LET h   == Len(x) \div 2
             lo  == BAddC(SubSeq(x, h + 1, Len(x)), SubSeq(y, h + 1, Len(y)), c)
             hi0 == BAddC(SubSeq(x, 1, h), SubSeq(y, 1, h), 0)
             hi1 == BAddC(SubSeq(x, 1, h), SubSeq(y, 1, h), 1)
         IN  IF lo[1] = 1 THEN <<hi1[1], hi1[2] \o lo[2]>> ELSE <<hi0[1], hi0[2] \o lo[2]>>

\* The sum of two binary integers given as bit strings.
BAdd(x, y) ==
    LET n  == IF Len(x) > Len(y) THEN Len(x) ELSE Len(y)
        r  == BAddC(Zeros(n - Len(x)) \o x, Zeros(n - Len(y)) \o y, 0)
    IN  IF r[1] = 1 THEN <<1>> \o r[2] ELSE r[2]

\* Long division of the bit string b, entered with remainder r, by d:
\* <<quotient bits, remainder>>.
RECURSIVE LongDivR(_, _, _)
LongDivR(b, d, r) ==
    IF Len(b) = 0 THEN <<<<>>, r>>
    ELSE IF Len(b) = 1
         THEN (IF 2 * r + b[1] >= d THEN <<<<1>>, 2 * r + b[1] - d>> ELSE <<<<0>>, 2 * r + b[1]>>)
    ELSE LET h  == Len(b) \div 2
             hi == LongDivR(SubSeq(b, 1, h), d, r)
             lo == LongDivR(SubSeq(b, h + 1, Len(b)), d, hi[2])
         IN  <<hi[1] \o lo[1], lo[2]>>

\* <<quotient bits, remainder>> of the binary integer b by d > 0.
LongDiv(b, d) == LongDivR(b, d, 0)

F64Zero == [k |-> "zero", m |-> <<0, 0>>, e |-> 0]

F64NaN == [k |-> "nan", m |-> <<0, 0>>, e |-> 0]

F64PInf == [k |-> "pinf", m |-> <<0, 0>>, e |-> 0]

F64NInf == [k |-> "ninf", m |-> <<0, 0>>, e |-> 0]

\* The 53 significand bits of a finite value, as a bit string.
MBits(f) ==
    LET hi == BitsOf(f.m[1])
        lo == BitsOf(f.m[2])
    IN  Zeros(Precision - LowBits - Len(hi)) \o hi \o Zeros(LowBits - Len(lo)) \o lo

\* The finite value with significand bit string b (53 bits) and exponent e.
Fin(b, e) ==
    [k |-> "fin",
     m |-> <<IntOf(SubSeq(b, 1, Precision - LowBits)), IntOf(SubSeq(b, Precision - LowBits + 1, Precision))>>,
     e |-> e]

\* Round to nearest, ties to even: the binary64 nearest to
\* (bits * 2^e + a residue below 2^e that is non-zero iff sticky).
F64Round(bits, e, sticky) ==
    LET b == StripLeading(bits)
        n == Len(b)
    IN  IF n = 0 THEN F64Zero
        ELSE IF n <= Precision
             THEN Fin(b \o Zeros(Precision - n), e - (Precision - n))
        ELSE LET m     == SubSeq(b, 1, Precision)
                 guard == b[Precision + 1]
                 rest  == sticky \/ \E i \in (Precision + 2)..n : b[i] = 1
                 up    == guard = 1 /\ (rest \/ m[Precision] = 1)
                 m1    == IF up THEN BAdd(m, <<1>>) ELSE m
             IN  IF Len(m1) > Precision
                 THEN Fin(SubSeq(m1, 1, Precision), e + (n - Precision) + 1)
                 ELSE Fin(m1, e + (n - Precision))

\* a + b in binary64.
F64Add(a, b) ==
    IF a.k = "nan" \/ b.k = "nan" THEN F64NaN
    ELSE IF a.k \in {"pinf", "ninf"} /\ b.k \in {"pinf", "ninf"}
         THEN (IF a.k = b.k THEN a ELSE F64NaN)
    ELSE IF a.k \in {"pinf", "ninf"} THEN a
    ELSE IF b.k \in {"pinf", "ninf"} THEN b
    ELSE IF a.k = "zero" THEN b
    ELSE IF b.k = "zero" THEN a
    ELSE LET e0 == IF a.e < b.e THEN a.e ELSE b.e
         IN  F64Round(BAdd(MBits(a) \o Zeros(a.e - e0), MBits(b) \o Zeros(b.e - e0)), e0, FALSE)

GuardBits == 8

\* a / n in binary64, for an integer 1 <= n < 2^(GuardBits - 2).
F64DivInt(a, n) ==
    IF a.k # "fin" THEN a
    ELSE LET qr == LongDiv(MBits(a) \o Zeros(GuardBits), n)
         IN  F64Round(qr[1], a.e - GuardBits, qr[2] # 0)

\* The binary64 nearest to a rational q >= 0 (what the literal or the
\* detector's own arithmetic yields).
F64FromRat(q) ==
    IF IsNaN(q) THEN F64NaN
    ELSE IF q = PInf THEN F64PInf
    ELSE IF q = NInf THEN F64NInf
    ELSE IF q[1] = 0 THEN F64Zero
    ELSE LET ext == Precision + 2 + Len(BitsOf(q[2]))
             qr  == LongDiv(BitsOf(q[1]) \o Zeros(ext), q[2])
         IN  F64Round(qr[1], -ext, qr[2] # 0)

\* The exact rational value of a binary64 (for significands that fit).
F64ToRat(f) ==
    IF f.k = "nan" THEN NaN
    ELSE IF f.k = "pinf" THEN PInf
    ELSE IF f.k = "ninf" THEN NInf
    ELSE IF f.k = "zero" THEN R(0)
    ELSE LET b  == StripTrailing(MBits(f))
             e2 == f.e + (Precision - Len(b))
         IN  IF e2 >= 0 THEN R(IntOf(b) * Pow2(e2)) ELSE RNorm(IntOf(b), Pow2(-e2))

RECURSIVE F64Sum(_)
F64Sum(s) == IF s = <<>> THEN F64Zero ELSE F64Add(F64Sum(SubSeq(s, 1, Len(s) - 1)), s[Len(s)])

\* Mutant of np_mean: the sum, not divided.
np_mean_sum(s) == F64Sum(s)

\* np.mean of a float64 array: the running sum, then one division by the count.
np_mean(s) == F64DivInt(F64Sum(s), Len(s))

(***************************************************************************)
(* Optional arguments: <<>> is None, <<v>> is the value v.                 *)
(***************************************************************************)
None == <<>>

Some(v) == <<v>>

\* Python truthiness of an optional number: None and 0 are false.
Truthy(o) == o # None /\ o[1] # 0

(***************************************************************************)
(* Bounds of the model.                                                    *)
(***************************************************************************)
\* Stepping iterations explored per invocation.
MaxSteps == 2

\* Largest `average` passed to a direct call of measure_centroid.
MaxAverage == 3

\* The clock runs from 0 to MaxTime, in ticks; a wait takes no time or one tick.
MaxTime == 2

(***************************************************************************)
(* The detector.  A "linear" detector reads m * position + b; a "free" one *)
(* returns any of `values` on every read.                                  *)
(***************************************************************************)
Linear(m, b) == [kind |-> "linear", m |-> R(m), b |-> R(b), values |-> {}]

Free(vs) == [kind |-> "free", m |-> R(0), b |-> R(0), values |-> vs]

\* The values detector.read()['centroid']['value'] can give at `position`.
ReadValues(sensor, position) ==
    IF sensor.kind = "linear"
    THEN {F64FromRat(RAdd(RMul(sensor.m, position), sensor.b))}
    ELSE sensor.values

\* Arguments of walk_to_pixel explored: the scenario of the specification
\* (reading = 5 * position + 2, target 52), a detector of large readings,
\* an immediate convergence, and a detector free to read 7 or 52.
Scenarios ==
    { [target |-> R(52), start |-> R(0), tolerance |-> R(0), sensor |-> Linear(5, 2)],
      [target |-> R(200001), start |-> R(0), tolerance |-> R(0), sensor |-> Linear(1, 200000)],
      [target |-> R(52), start |-> R(10), tolerance |-> R(1), sensor |-> Linear(5, 2)],
      [target |-> R(52), start |-> R(0), tolerance |-> R(1),
       sensor |-> Free({F64FromRat(R(7)), F64FromRat(R(52))})] }

FirstSteps == {R(0), R(1)}

\* Values of `average` passed to walk_to_pixel.
WalkAverages == {None, Some(0), Some(1), Some(2)}

Timeouts == {None, Some(0), Some(1)}

\* Values read in a direct call of measure_centroid: 0.1, 7, 8 and 52.
MeanReadings == {F64FromRat(<<1, 10>>), F64FromRat(R(7)), F64FromRat(R(8)), F64FromRat(R(52))}

VARIABLES
    target, start, first_step, tolerance, average, timeout, \* arguments
    sensor,      \* the detector
    pc,          \* where the plan is suspended
    center,      \* walk: last averaged reading
    next_pos,    \* walk: next position to move to
    centers,     \* walk: readings recorded
    angles,      \* walk: positions recorded
    start_time,  \* walk: time.time() at loop start
    result,      \* value walk_to_pixel returned (None until it returns one)
    exc,         \* exception that ended the plan, "" if none
    caller,      \* measure_centroid: the call site to return to
    nshots,      \* measure_centroid: nshots
    mc_centers,  \* measure_centroid: the array `centers`
    i,           \* measure_centroid: loop index
    mc_result,   \* value measure_centroid returned last
    mc_reads,    \* values the run engine answered to the reads of this call
    now,         \* the clock time.time() reads
    position,    \* where the motor is
    trace,       \* commands of the messages yielded so far
    moves,       \* positions of the `set` messages yielded so far
    iters,       \* Stepping iterations completed
    mc_mark      \* length of trace when measure_centroid was last called

args == <<target, start, first_step, tolerance, average, timeout, sensor>>

walk_vars == <<center, next_pos, centers, angles, start_time, result, exc, iters>>

mc_vars == <<caller, nshots, mc_centers, i, mc_result, mc_reads, mc_mark>>

env_vars == <<now, position, trace, moves>>

vars == <<args, pc, walk_vars, mc_vars, env_vars>>

InitCommon ==
    /\ center = NaN
    /\ next_pos = NaN
    /\ centers = <<>>
    /\ angles = <<>>
    /\ start_time = 0
    /\ result = None
    /\ exc = ""
    /\ nshots = 0
    /\ mc_centers = <<>>
    /\ i = 0
    /\ mc_result = None
    /\ mc_reads = <<>>
    /\ now = 0
    /\ position = R(0)
    /\ trace = <<>>
    /\ moves = <<>>
    /\ iters = 0
    /\ mc_mark = 0

\* A call walk_to_pixel(detector, motor, target, start, first_step,
\* tolerance, average, timeout), not yet started.
Init ==
    /\ \E sc \in Scenarios :
          /\ target = sc.target
          /\ start = sc.start
          /\ tolerance = sc.tolerance
          /\ sensor = sc.sensor
    /\ first_step \in FirstSteps
    /\ average \in WalkAverages
    /\ timeout \in Timeouts
    /\ pc = "start_set"
    /\ caller = "init"
    /\ InitCommon

Emit(cmd) == trace' = Append(trace, cmd)

(***************************************************************************)
(* bluesky.plans.mv(motor, pos): a `set` message, then a `wait` for it.    *)
(***************************************************************************)
\* plans.py:131 and :147, the `set` of mv.
MvSet ==
    /\ pc \in {"start_set", "step_set"}
    /\ Emit("set")
    /\ moves' = Append(moves, IF pc = "start_set" THEN start ELSE next_pos)
    /\ pc' = IF pc = "start_set" THEN "start_wait" ELSE "step_wait"
    /\ UNCHANGED <<args, walk_vars, mc_vars, now, position>>

\* plans.py:131 and :147, the `wait` of mv: the motor has arrived.
MvWait ==
    /\ pc \in {"start_wait", "step_wait"}
    /\ Emit("wait")
    /\ position' = moves[Len(moves)]
    /\ \E dt \in {0, 1} : now + dt <= MaxTime /\ now' = now + dt
    /\ caller' = IF pc = "start_wait" THEN "init" ELSE "step"
    /\ pc' = "mc_enter"
    /\ UNCHANGED <<args, walk_vars, nshots, mc_centers, i, mc_result, mc_reads, mc_mark, moves>>

(***************************************************************************)
(* measure_centroid(detector, average)                                     *)
(***************************************************************************)
\* Mutant of Shots: `average` is ignored.
Shots_single(avg) == 1

\* Mutant of Shots: two shots when `average` is not given.
Shots_pair(avg) == IF Truthy(avg) THEN avg[1] ELSE 2

\* plans.py:42
Shots(avg) == IF Truthy(avg) THEN avg[1] ELSE 1

\* plans.py:42-43
MeasureEnter ==
    /\ pc = "mc_enter"
    /\ nshots' = Shots(average)
    /\ mc_centers' = [n \in 1..Shots(average) |-> F64Zero]
    /\ i' = 0
    /\ mc_reads' = <<>>
    /\ mc_mark' = Len(trace)
    /\ pc' = "create"
    /\ UNCHANGED <<args, walk_vars, caller, mc_result, env_vars>>

\* plans.py:52
Create ==
    /\ pc = "create"
    /\ Emit("create")
    /\ pc' = "trigger"
    /\ UNCHANGED <<args, walk_vars, mc_vars, now, position, moves>>

\* plans.py:53
Trigger ==
    /\ pc = "trigger"
    /\ Emit("trigger")
    /\ pc' = "wait"
    /\ UNCHANGED <<args, walk_vars, mc_vars, now, position, moves>>

\* Mutant of Wait: the timeout is also looked at while waiting for a shot.
Wait_preemptive ==
    /\ pc = "wait"
    /\ trace' = trace \o (IF Truthy(timeout) /\ now - start_time > timeout[1]
                           THEN <<"abort", "wait">> ELSE <<"wait">>)
    /\ \E dt \in {0, 1} : now + dt <= MaxTime /\ now' = now + dt
    /\ pc' = "read"
    /\ UNCHANGED <<args, walk_vars, mc_vars, position, moves>>

\* plans.py:54
Wait ==
    /\ pc = "wait"
    /\ Emit("wait")
    /\ \E dt \in {0, 1} : now + dt <= MaxTime /\ now' = now + dt
    /\ pc' = "read"
    /\ UNCHANGED <<args, walk_vars, mc_vars, position, moves>>

\* plans.py:55-56
Read ==
    /\ pc = "read"
    /\ Emit("read")
    /\ \E v \in ReadValues(sensor, position) :
          /\ mc_centers' = [mc_centers EXCEPT ![i + 1] = v]
          /\ mc_reads' = Append(mc_reads, v)
    /\ pc' = "save"
    /\ UNCHANGED <<args, walk_vars, caller, nshots, i, mc_result, mc_mark, now, position, moves>>

\* Ways a cycle fails to give a centroid value: the run engine throws the
\* failure of the read into the plan at plans.py:55, or the reading has no
\* 'centroid' entry and plans.py:56 raises KeyError.
ReadFailures == {"ReadFailed", "KeyError"}

\* Mutant of ReadFails: the failure is noted and the cycle is tried again.
ReadFails_retry ==
    /\ pc = "read"
    /\ Emit("read")
    /\ exc' \in ReadFailures
    /\ pc' = "create"
    /\ UNCHANGED <<args, center, next_pos, centers, angles, start_time, result, iters,
                   mc_vars, now, position, moves>>

\* plans.py:55-56 when no centroid value comes back: nothing in
\* measure_centroid or walk catches the exception, so the plan ends with it.
ReadFails ==
    /\ pc = "read"
    /\ Emit("read")
    /\ exc' \in ReadFailures
    /\ pc' = "raised"
    /\ UNCHANGED <<args, center, next_pos, centers, angles, start_time, result, iters,
                   mc_vars, now, position, moves>>

\* Mutant of AfterShot: the loop ends one shot early.
AfterShot_short(k, n) == IF k + 2 < n THEN "create" ELSE "mc_return"

\* plans.py:50: the next value of range(nshots), or the end of the loop.
AfterShot(k, n) == IF k + 1 < n THEN "create" ELSE "mc_return"

\* plans.py:57 and the loop back at :50
Save ==
    /\ pc = "save"
    /\ Emit("save")
    /\ i' = IF AfterShot(i, nshots) = "create" THEN i + 1 ELSE i
    /\ pc' = AfterShot(i, nshots)
    /\ UNCHANGED <<args, walk_vars, caller, nshots, mc_centers, mc_result, mc_reads, mc_mark, now, position, moves>>

\* plans.py:60 returning to plans.py:132 or :149
MeasureReturn ==
    /\ pc = "mc_return"
    /\ caller \in {"init", "step"}
    /\ LET mean == np_mean(mc_centers)
       IN  mc_result' = Some(mean) /\ center' = F64ToRat(mean)
    /\ pc' = IF caller = "init" THEN "walk_init" ELSE "fit"
    /\ UNCHANGED <<args, next_pos, centers, angles, start_time, result, exc, iters,
                   caller, nshots, mc_centers, i, mc_reads, mc_mark, env_vars>>

\* plans.py:60 returning to a caller that called measure_centroid directly.
MeasureReturnDirect ==
    /\ pc = "mc_return"
    /\ caller = "none"
    /\ mc_result' = Some(np_mean(mc_centers))
    /\ pc' = "done"
    /\ UNCHANGED <<args, walk_vars, caller, nshots, mc_centers, i, mc_reads, mc_mark, env_vars>>

(***************************************************************************)
(* walk_to_pixel(...).walk()                                               *)
(***************************************************************************)
\* numpy's default relative tolerance of np.isclose, 1e-5.
RTol == <<1, 100000>>

\* Mutant of isclose: a strict, purely absolute test.
isclose_absolute(a, b, atol) ==
    ~IsNaN(a) /\ ~IsNaN(b) /\ RAbs(RSub(a, b)) # atol /\ RLeq(RAbs(RSub(a, b)), atol)

\* np.isclose(a, b, atol=atol): |a - b| <= atol + rtol * |b|.
isclose(a, b, atol) ==
    IF IsNaN(a) \/ IsNaN(b) THEN FALSE
    ELSE IF IsInf(a) \/ IsInf(b) THEN a = b
    ELSE RLeq(RAbs(RSub(a, b)), RAdd(atol, RMul(RTol, RAbs(b))))

\* scipy.stats.linregress(x, y): <<slope, intercept>> of the least-squares
\* line, from the means and the (biased) covariances as scipy computes them.
linregress(x, y) ==
    LET xmean  == RMean(x)
        ymean  == RMean(y)
        ssxm   == RMean([j \in 1..Len(x) |-> RMul(RSub(x[j], xmean), RSub(x[j], xmean))])
        ssxym  == RMean([j \in 1..Len(x) |-> RMul(RSub(x[j], xmean), RSub(y[j], ymean))])
        slope  == RDiv(ssxym, ssxm)
    IN  <<slope, RSub(ymean, RMul(slope, xmean))>>

\* All x values are identical: scipy up to 1.6 returns a nan slope here
\* (0/0 with a RuntimeWarning), later releases raise ValueError.
Degenerate(x) == \A j \in 1..Len(x) : x[j] = x[1] /\ ~IsNaN(x[j])

\* Mutant of TimedOut: the deadline itself already counts as exceeded.
TimedOut_reached(to, t, t0) == Truthy(to) /\ t - t0 >= to[1]

\* plans.py:141
TimedOut(to, t, t0) == Truthy(to) /\ t - t0 > to[1]

\* plans.py:129-156: walk() has no return statement, so its value is None
\* whatever the last reading c was; plans.py:158 returns that value.
WalkReturn(c) == None

\* plans.py:133-136
WalkInit ==
    /\ pc = "walk_init"
    /\ next_pos' = RAdd(start, first_step)
    /\ centers' = <<center>>
    /\ angles' = <<start>>
    /\ start_time' = now
    /\ pc' = "while"
    /\ UNCHANGED <<args, center, result, exc, iters, mc_vars, env_vars>>

\* Mutant of While: the loop gives up after the first Stepping iteration.
While_capped ==
    /\ pc = "while"
    /\ IF isclose(target, center, tolerance) \/ iters >= 1
       THEN pc' = "done" /\ result' = WalkReturn(center)
       ELSE pc' = "timeout" /\ UNCHANGED result
    /\ UNCHANGED <<args, center, next_pos, centers, angles, start_time, exc, iters,
                   mc_vars, env_vars>>

\* plans.py:138, and :158 when the loop ends
While ==
    /\ pc = "while"
    /\ IF isclose(target, center, tolerance)
       THEN pc' = "done" /\ result' = WalkReturn(center)
       ELSE pc' = "timeout" /\ UNCHANGED result
    /\ UNCHANGED <<args, center, next_pos, centers, angles, start_time, exc, iters,
                   mc_vars, env_vars>>

\* plans.py:141-142: after `yield Msg('abort')` the plan goes on to :145.
TimeoutClause ==
    /\ pc = "timeout"
    /\ IF TimedOut(timeout, now, start_time) THEN Emit("abort") ELSE UNCHANGED trace
    /\ pc' = "checkpoint"
    /\ UNCHANGED <<args, walk_vars, mc_vars, now, position, moves>>

\* Mutant of Checkpoint: the iteration starts without a checkpoint message.
Checkpoint_skipped ==
    /\ pc = "checkpoint"
    /\ iters < MaxSteps
    /\ pc' = "step_set"
    /\ UNCHANGED <<args, walk_vars, mc_vars, env_vars>>

\* plans.py:145
Checkpoint ==
    /\ pc = "checkpoint"
    /\ iters < MaxSteps
    /\ Emit("checkpoint")
    /\ pc' = "step_set"
    /\ UNCHANGED <<args, walk_vars, mc_vars, now, position, moves>>

\* Mutant of NextPosition: the intercept is left out.
NextPosition_slope(tgt, fit) == RDiv(tgt, fit[1])

\* plans.py:156
NextPosition(tgt, fit) == RDiv(RSub(tgt, fit[2]), fit[1])

\* Mutant of Record: the last sample is overwritten.
Record_overwrite(hist, v) == [hist EXCEPT ![Len(hist)] = v]

\* plans.py:152-153: list.append
Record(hist, v) == Append(hist, v)

\* plans.py:150-156
Fit ==
    /\ pc = "fit"
    /\ centers' = Record(centers, center)
    /\ angles' = Record(angles, next_pos)
    /\ next_pos' = NextPosition(target, linregress(angles', centers'))
    /\ iters' = iters + 1
    /\ pc' = "while"
    /\ UNCHANGED <<args, center, start_time, result, exc, mc_vars, env_vars>>

\* plans.py:152-155 with a scipy whose linregress raises on identical x.
FitRaises ==
    /\ pc = "fit"
    /\ centers' = Record(centers, center)
    /\ angles' = Record(angles, next_pos)
    /\ Degenerate(angles')
    /\ exc' = "ValueError"
    /\ pc' = "raised"
    /\ UNCHANGED <<args, center, next_pos, start_time, result, iters, mc_vars, env_vars>>

Next ==
    \/ MvSet
    \/ MvWait
    \/ MeasureEnter
    \/ Create
    \/ Trigger
    \/ Wait
    \/ Read
    \/ ReadFails
    \/ Save
    \/ MeasureReturn
    \/ WalkInit
    \/ While
    \/ TimeoutClause
    \/ Checkpoint
    \/ Fit
    \/ FitRaises

Spec == Init /\ [][Next]_vars

\* The points at which the plan can be.
ProgramPoints ==
    {"start_set", "start_wait", "step_set", "step_wait", "mc_enter", "create", "trigger",
     "wait", "read", "save", "mc_return", "walk_init", "while", "timeout", "checkpoint",
     "fit", "done", "raised"}

\* The plan moves on from where it is; it has nowhere to go once it has
\* returned or raised, and the model follows it for MaxSteps iterations.
Resume ==
    /\ pc \notin {"done", "raised"}
    /\ pc = "checkpoint" => iters < MaxSteps
    /\ pc' \in ProgramPoints \ {pc}

\* The run engine keeps resuming a plan that has not ended.
FairSpec == Spec /\ WF_pc(Resume)

(***************************************************************************)
(* A direct call measure_centroid(detector, average) on a detector that    *)
(* returns 0.1, 7, 8 or 52 on each read.                                   *)
(***************************************************************************)
MeanAverages == {None} \cup {Some(n) : n \in 1..MaxAverage}

InitMean ==
    /\ target = R(0)
    /\ start = R(0)
    /\ tolerance = R(0)
    /\ first_step = R(0)
    /\ timeout = None
    /\ sensor = Free(MeanReadings)
    /\ average \in MeanAverages
    /\ pc = "mc_enter"
    /\ caller = "none"
    /\ InitCommon

NextMean ==
    \/ MeasureEnter
    \/ Create
    \/ Trigger
    \/ Wait
    \/ Read
    \/ ReadFails
    \/ Save
    \/ MeasureReturnDirect

SpecMean == InitMean /\ [][NextMean]_vars

(***************************************************************************)
(* Properties                                                              *)
(***************************************************************************)
Count(seq, cmd) == Cardinality({j \in 1..Len(seq) : seq[j] = cmd})

\* |a - b| <= tol, the absolute test.
Within(a, b, tol) == RLeq(RAbs(RSub(a, b)), tol)

\* C1: whenever walk_to_pixel finishes, the value it returns is the last
\* averaged reading observed (the final value of `center`).
C1_ReturnsLastReading == pc = "done" => result = Some(center)

\* C2: once the abort message is emitted the invocation stops: no checkpoint,
\* no move and no trigger or read message follows it.
C2_AbortStops ==
    \A j \in 1..Len(trace) :
        trace[j] = "abort" =>
            \A k \in (j + 1)..Len(trace) : trace[k] \notin {"checkpoint", "set", "trigger", "read"}

\* C3: the abort message is emitted at most once in an invocation.
C3_AbortAtMostOnce == Count(trace, "abort") <= 1

\* C4: the loop never exits as converged with |target - center| > tolerance.
C4_ConvergedWithinTolerance == pc = "done" => Within(target, center, tolerance)

\* A detector that is exactly linear with a non-zero slope, a non-zero first
\* step and no timeout.
LinearCase ==
    /\ sensor.kind = "linear"
    /\ sensor.m # R(0)
    /\ first_step # R(0)
    /\ ~Truthy(timeout)

\* C5: on an exactly linear detector the walk converges within tolerance of
\* target after at most two Stepping iterations.
C5_LinearConverges ==
    LinearCase =>
        /\ iters <= 2
        /\ iters = 2 => pc \in {"while", "done"}
        /\ pc = "done" => Within(target, center, tolerance)

\* The part of C5 about the number of iterations and the final position.
C5_LinearSteps ==
    LinearCase =>
        /\ iters <= 2
        /\ iters = 2 => pc \in {"while", "done"}
        /\ (pc = "done" /\ iters = 2) => center = target

\* The convergence test of plans.py:138 written out: |target - c| is at most
\* tolerance + 1e-5 * |c|.
ConvergenceTest(c) ==
    RLeq(RAbs(RSub(target, c)), RAdd(tolerance, RMul(<<1, 100000>>, RAbs(c))))

Cycle == <<"create", "trigger", "wait", "read", "save">>

RECURSIVE Cycles(_)
Cycles(n) == IF n = 0 THEN <<>> ELSE Cycle \o Cycles(n - 1)

IsPrefix(p, q) == Len(p) <= Len(q) /\ SubSeq(q, 1, Len(p)) = p

\* C6: if the reading taken at `start` satisfies the convergence test, the
\* walk ends with no Stepping iteration: its whole trace is the move to
\* `start` and one averaged measurement.
C6_ImmediateConvergence ==
    (centers # <<>> /\ ConvergenceTest(centers[1])) =>
        /\ pc \in {"while", "done"}
        /\ iters = 0
        /\ trace = <<"set", "wait">> \o Cycles(Shots(average))
        /\ moves = <<start>>

C6_Witness ==
    /\ pc = "done"
    /\ centers # <<>>
    /\ ConvergenceTest(centers[1])
    /\ Len(trace) = 12

\* The messages of the call of measure_centroid under way.
Segment == SubSeq(trace, mc_mark + 1, Len(trace))

\* C7: a call of measure_centroid with average = N >= 1 emits exactly N
\* cycles create, trigger, wait, read, save, one after the other, so N
\* trigger and N read messages.
C7_Cycles ==
    (caller = "none" /\ Truthy(average)) =>
        /\ IsPrefix(Segment, Cycles(average[1]))
        /\ pc = "done" =>
              /\ Segment = Cycles(average[1])
              /\ Count(Segment, "trigger") = average[1]
              /\ Count(Segment, "read") = average[1]

C7_Witness == caller = "none" /\ pc = "done" /\ average = Some(3) /\ Len(Segment) = 15

\* Exact arithmetic on binary64 values: the value of f as a binary integer
\* in units of 2^e0, for e0 at most the exponent of f.
ExactBits(f, e0) == IF f.k = "fin" THEN MBits(f) \o Zeros(f.e - e0) ELSE <<>>

MinExp(s) ==
    LET es == {s[j].e : j \in 1..Len(s)}
    IN  CHOOSE e \in es : \A e2 \in es : e <= e2

RECURSIVE ExactSum(_, _)
ExactSum(s, e0) ==
    IF s = <<>> THEN <<>>
    ELSE StripLeading(BAdd(ExactSum(SubSeq(s, 1, Len(s) - 1), e0), ExactBits(s[Len(s)], e0)))

\* n * f = the sum of the values of s, exactly.
TimesEqualsSum(n, f, s) ==
    LET e0 == MinExp(Append(s, f))
    IN  ExactSum([j \in 1..n |-> f], e0) = ExactSum(s, e0)

Constant(s) == \A j \in 1..Len(s) : s[j] = s[1]

\* Every partial sum of s is a binary64 number (53 significant bits or fewer).
SumExact(s) ==
    \A n \in 1..Len(s) :
        Len(StripTrailing(ExactSum(SubSeq(s, 1, n), MinExp(s)))) <= Precision

\* The exact mean of s is a binary64 number.
MeanExact(s) ==
    LET qr == LongDiv(ExactSum(s, MinExp(s)) \o Zeros(GuardBits), Len(s))
    IN  qr[2] = 0 /\ Len(StripTrailing(StripLeading(qr[1]))) <= Precision

HistoryStep ==
    /\ Len(centers') = Len(angles')
    /\ IsPrefix(centers, centers')
    /\ IsPrefix(angles, angles')
    /\ Len(centers') <= Len(centers) + 1
    /\ iters' \in {iters, iters + 1}
    /\ (centers' # <<>> /\ pc' # "raised") => Len(centers') = iters' + 1

\* C9: after k completed Stepping iterations the two lists of the history
\* hold k + 1 entries each, and a step only ever appends one sample: recorded
\* samples keep their index and value.
C9_HistoryGrows == [][HistoryStep]_vars

C9_Witness == pc = "while" /\ iters = 2 /\ Len(centers) = 3 /\ Len(angles) = 3

\* C10: when all recorded positions are identical at a regression step the
\* invocation ends in an error at that step, with no next position computed
\* and no further move.
C10_DegenerateRaises == (Len(angles) >= 2 /\ Degenerate(angles)) => pc = "raised"

\* The readings recorded are all the same, at positions that are finite and
\* not all the same: the least-squares slope is zero.
ZeroSlope ==
    /\ Len(angles) >= 2
    /\ \A j \in 1..Len(angles) : ~IsNaN(angles[j]) /\ ~IsInf(angles[j])
    /\ \E j \in 1..Len(angles) : angles[j] # angles[1]
    /\ \A j \in 1..Len(centers) : centers[j] = centers[1]
    /\ ~Within(target, centers[1], tolerance)

\* C11: when the fitted slope is zero the invocation ends in an error at the
\* next-position computation: next_position never becomes infinite and no
\* move to an infinite position is issued.
C11_ZeroSlopeRaises ==
    /\ ZeroSlope => pc = "raised"
    /\ ~IsInf(next_pos)
    /\ \A j \in 1..Len(moves) : ~IsInf(moves[j])

\* One step of a plan with respect to a failed read.
ReadFailureStep ==
    /\ exc \notin ReadFailures
    /\ exc' \in ReadFailures =>
          /\ pc' = "raised"
          /\ trace'[Len(trace')] = "read"
          /\ Count(SubSeq(trace', mc_mark' + 1, Len(trace')), "read") = Len(mc_reads') + 1
          /\ mc_result' = mc_result
          /\ result' = None
          /\ center' = center
          /\ centers' = centers
          /\ angles' = angles
          /\ moves' = moves
          /\ Len(centers') = IF caller' = "step" THEN iters' + 1 ELSE 0

\* C12: a cycle of measure_centroid that yields no centroid value ends the
\* call with that failure and without a result; nothing is emitted after the
\* failed read, and a walk that made the call ends with the same failure
\* without another checkpoint or move and without recording a sample.
C12_ReadFailurePropagates == [][ReadFailureStep]_vars

C12_Witness ==
    /\ exc \in ReadFailures
    /\ pc = "raised"
    /\ caller = "step"
    /\ iters = 1
    /\ Len(mc_reads) = 1

\* C13: with `average` left at None, measure_centroid performs exactly one
\* cycle and returns the single value read, unchanged.
C13_DefaultSingleShot ==
    (caller = "none" /\ average = None /\ exc = "") =>
        /\ IsPrefix(Segment, Cycle)
        /\ Len(mc_reads) <= 1
        /\ pc = "done" =>
              /\ Segment = Cycle
              /\ Count(trace, "trigger") = 1
              /\ Count(trace, "read") = 1
              /\ mc_result = Some(mc_reads[1])

C13_Witness ==
    /\ caller = "none"
    /\ average = None
    /\ pc = "done"
    /\ mc_reads = <<F64FromRat(<<1, 10>>)>>
    /\ mc_result = Some(F64FromRat(<<1, 10>>))

NotAbort(cmd) == cmd # "abort"

\* The messages of one Stepping iteration: checkpoint, the move, the
\* averaged measurement.
Iteration == <<"checkpoint", "set", "wait">> \o Cycles(Shots(average))

\* The messages of the initial move and measurement and of k iterations.
RECURSIVE WalkTrace(_)
WalkTrace(k) ==
    IF k = 0 THEN <<"set", "wait">> \o Cycles(Shots(average))
    ELSE WalkTrace(k - 1) \o Iteration

\* C14: each Stepping iteration emits checkpoint, move, averaged measurement
\* in that order, with exactly one checkpoint, and only then records the
\* sample and refits; nothing of the next iteration is emitted before that.
C14_IterationOrder ==
    LET c == Count(trace, "checkpoint")
        T == SelectSeq(trace, NotAbort)
    IN  /\ IsPrefix(T, WalkTrace(c))
        /\ c \in {iters, iters + 1}
        /\ pc \in {"while", "timeout", "checkpoint", "done"} =>
              c = iters /\ T = WalkTrace(iters) /\ Len(angles) = iters + 1
        /\ pc = "fit" =>
              c = iters + 1 /\ T = WalkTrace(c) /\ Len(angles) = iters + 1
        /\ (c = iters + 1 /\ T # WalkTrace(c)) =>
              Len(angles) = iters + 1 /\ pc \notin {"fit", "while", "timeout", "checkpoint", "done"}

C14_Witness ==
    /\ pc = "while"
    /\ iters = 2
    /\ Shots(average) = 2
    /\ Count(trace, "checkpoint") = 2
    /\ Count(trace, "abort") = 0

\* C15: the timeout is evaluated only at the top of an iteration: every abort
\* message comes after a completed averaged measurement (never inside a move
\* or a measurement) and before the next checkpoint.
C15_AbortAtIterationTop ==
    \A j \in 1..Len(trace) :
        trace[j] = "abort" =>
            LET before == SubSeq(trace, 1, j - 1)
            IN  /\ SelectSeq(before, NotAbort) = WalkTrace(Count(before, "checkpoint"))
                /\ before # <<>> /\ before[j - 1] = "save"
                /\ j < Len(trace) => trace[j + 1] = "checkpoint"

C15_Witness ==
    /\ Shots(average) = 2
    /\ \E j \in 1..Len(trace) : trace[j] = "abort" /\ j + 2 < Len(trace)

\* The walk has run every Stepping iteration explored and is about to start
\* one more.
StillStepping == pc = "checkpoint" /\ iters = MaxSteps

\* C16: the walk has no bound of its own on the number of iterations: it
\* returns only when the convergence test holds, and without a timeout a walk
\* that neither converges nor fails goes on into every further iteration.
C16_NoIterationBound ==
    /\ [](pc = "done" => ConvergenceTest(center))
    /\ timeout = None => (<>(pc \in {"done", "raised"}) \/ <>StillStepping)

C16_Witness ==
    /\ StillStepping
    /\ timeout = None
    /\ exc = ""
    /\ sensor.kind = "linear"
    /\ Count(trace, "checkpoint") = MaxSteps

\* A step that emits an abort message.
AbortStep == Len(trace') = Len(trace) + 1 /\ trace'[Len(trace')] = "abort"

\* One step of the walk with respect to abort.
AbortOnlyOnTimeout ==
    /\ AbortStep =>
          /\ timeout # None
          /\ now - start_time > timeout[1]
          /\ pc = "timeout"
          /\ ~ConvergenceTest(center)
    /\ (pc = "while" /\ ConvergenceTest(center)) => pc' = "done" /\ trace' = trace

\* C17: abort comes from the timeout path only, and the convergence test is
\* made first: no abort without a timeout, none while the elapsed time does
\* not exceed the timeout, none when the reading satisfies the convergence
\* test, even with the deadline passed.
C17_AbortOnlyOnTimeout == [][AbortOnlyOnTimeout]_vars

C17_Witness ==
    /\ pc = "done"
    /\ iters >= 1
    /\ timeout # None
    /\ now - start_time > timeout[1]
    /\ Count(trace, "abort") = 0

\* Positions of the moves issued and completed: all the `set` messages but
\* one whose `wait` is still to come.
Completed ==
    IF pc \in {"start_wait", "step_wait"} THEN SubSeq(moves, 1, Len(moves) - 1) ELSE moves

\* C18 as stated: once the history is seeded, the positions recorded are at
\* every moment the positions of the moves completed so far.
C18_HistoryEqualsMoves == angles # <<>> => angles = Completed

\* The position the refit of the first j samples gives.
Refit(j) ==
    LET fit == linregress(SubSeq(angles, 1, j), SubSeq(centers, 1, j))
    IN  RDiv(RSub(target, fit[2]), fit[1])

\* C18 amended: the positions recorded are a prefix of the positions moved
\* to, one behind while the measurement at the last position is under way or
\* has failed, and equal to them whenever the loop test is made; the moves
\* are to start, to start + first_step, then to the position of each refit.
C18_HistoryFollowsMoves ==
    /\ IsPrefix(angles, Completed)
    /\ Len(Completed) <= Len(angles) + 1
    /\ pc \in {"while", "timeout", "checkpoint", "done"} => angles = moves
    /\ (angles # <<>> /\ angles # Completed) =>
          \/ pc \in {"mc_enter", "create", "trigger", "wait", "read", "save", "mc_return", "fit"}
          \/ exc \in ReadFailures
    /\ moves # <<>> => moves[1] = start
    /\ Len(moves) >= 2 => moves[2] = RAdd(start, first_step)
    /\ \A j \in 3..Len(moves) : moves[j] = Refit(j - 1)

C18_Witness ==
    /\ pc = "done"
    /\ iters = 2
    /\ moves = <<R(0), R(1), R(10)>>
    /\ angles = moves

\* The shots per measurement: `average` if it is a positive integer, 1 if it
\* is unset or 0.
ShotsPerMeasurement == IF average = None \/ average = Some(0) THEN 1 ELSE average[1]

\* C19: every measurement of an invocation takes the same number n of shots,
\* so after k completed Stepping iterations the invocation has emitted
\* exactly (k + 1) * n trigger messages, and as many create and save messages.
C19_TriggerCount ==
    /\ pc \in {"create", "trigger", "wait", "read", "save", "mc_return"} =>
          nshots = ShotsPerMeasurement
    /\ pc \in {"while", "timeout", "checkpoint", "done"} =>
          /\ Count(trace, "trigger") = (iters + 1) * ShotsPerMeasurement
          /\ Count(trace, "create") = (iters + 1) * ShotsPerMeasurement
          /\ Count(trace, "save") = (iters + 1) * ShotsPerMeasurement

C19_Witness ==
    /\ pc = "while"
    /\ iters = 2
    /\ average = Some(2)
    /\ Count(trace, "trigger") = 6

====
